---- MODULE Spec2Model ----
(***************************************************************************)
(* Model of the Audio-Description-Generator segmentation, deduplication    *)
(* and timeline engine.                                                    *)
(*                                                                         *)
(* Times are integer milliseconds (the Python code uses float seconds).    *)
(* A timecode "hh:mm:ss.mmm" is the tuple <<hh, mm, ss, mmm>>.             *)
(* A Python str is a sequence of one-character strings; '' is <<>>.        *)
(* Python None, where a time is expected, is the value None == -1.         *)
(***************************************************************************)
EXTENDS Integers, Sequences, FiniteSets, TLC

\* ------------------------------------------------------------------------
\* Bounds of the model
\* ------------------------------------------------------------------------
MaxWords == 3
MaxTick == 6
MaxIntervals == 4
MaxSecond == 2
MaxSegments == 2
MaxScenes == 3
MaxFailures == 4
MaxLines == 3
MaxDuration == 5
MaxCalls == 3

\* ------------------------------------------------------------------------
\* Generic helpers
\* ------------------------------------------------------------------------
None == -1

Last(s) == s[Len(s)]

RECURSIVE lstrip(_)
lstrip(s) == IF s /= <<>> /\ Head(s) = " " THEN lstrip(Tail(s)) ELSE s

RECURSIVE rstrip(_)
rstrip(s) == IF s /= <<>> /\ Last(s) = " " THEN rstrip(SubSeq(s, 1, Len(s) - 1)) ELSE s

\* str.strip()
strip(s) == rstrip(lstrip(s))

\* describe_video.format_seconds: seconds -> "hh:mm:ss.mmm"
format_seconds(seconds) ==
    LET hours   == seconds \div 3600000
        minutes == (seconds % 3600000) \div 60000
        secs    == (seconds % 60000) \div 1000
        millis  == seconds % 1000
    IN  <<hours, minutes, secs, millis>>

\* ffmpeg_helper.seconds_to_timecode: the display timecode of a time; it does
\* arithmetic on its argument, which raises TypeError for None.
seconds_to_timecode_raises(seconds) == seconds = None

seconds_to_timecode(seconds) == format_seconds(seconds)

\* visual_scene_detect._timecode_to_seconds
_timecode_to_seconds(timecode) ==
    timecode[1] * 3600000 + timecode[2] * 60000 + (timecode[3] * 1000 + timecode[4])

\* ------------------------------------------------------------------------
\* State
\* ------------------------------------------------------------------------
VARIABLES
    \* audio_block_detect.get_audio_blocks
    ab_pc, words, min_pause, total_duration, blocks, block_count, last_end,
    text_buffer, text_buffer_start, index,
    \* the segment mergers: which one is called, its input, the minimum
    \* duration, the number of calls made, the last result and the one before
    merger, intervals, min_duration, merge_calls, merge_out, merge_prev,
    \* one run of a pipeline
    entry,                  \* the module whose process_video runs
    pc,                     \* "start", then "scenes" or "lines", then "done"
    scenes,                 \* the scenes returned by the detector
    scene_pos,              \* how many scenes the for loop has passed
    clips,                  \* the clip list
    previous_descriptions,  \* describe_video: the accepted descriptions
    FILES,                  \* the registry of temporary files
    image_description,      \* process_scene: the description of the last scene
    skipping,               \* process_scene: the last value of skipping
    describe_calls,         \* engine calls made by the last description request
    similarity,             \* the similarity engine: score of each pair of descriptions
    similarity_requests,    \* the <<text1, text2>> given to semantic_similarity
    tts_requests,           \* the narration requests: text and output file
    cut_requests,           \* the requests to cut_video_into_clip
    clips_file,             \* what export_clips_to_file wrote, <<>> before
    line_count,             \* process_video.py: lines of the script handled
    previous_time,          \* process_video.py: end of the footage cut so far
    video_duration,         \* total duration of the input video
    SAVE_FILES,             \* the --save_files option
    disk,                   \* the files that exist in ./tmp
    failed_attempts,        \* failures of the engine in the last description request
    \* visual_scene_detect_clip.get_visual_scenes
    gvs_pc,                 \* "idle", "loop" or "done"
    video_length,           \* duration: the length of the video
    seconds_per_check, threshold,
    frame_index,            \* the loop variable, in whole seconds
    prev_emb,               \* the frame whose embedding prev_emb is, or None
    current_scene_start, next_scene_number,
    visual_scenes,          \* scenes: the list returned
    frame_FILES,            \* the module's registry FILES
    tmp_frames,             \* the frame images that exist in ./tmp
    \* visual_detection_simple.process_video
    simple_pc,              \* "idle", "sample", "cuts", "frames" or "done"
    simple_duration,        \* duration: the length of the video
    sample_interval, cut_threshold, min_scene_length, frames_per_scene, method,
    current_time,           \* analyze_video_single_pass: the time of the next frame
    prev_timestamp,         \* the time of the frame before it, or None
    similarities,           \* the list returned by analyze_video_single_pass
    detected_cuts,          \* cuts: the list returned by detect_cuts_from_similarities
    optimal_scenes,         \* scenes: the list returned by find_optimal_frames_per_scene
    simple_FILES,           \* the module's registry FILES
    simple_tmp,             \* the frame images that exist in ./tmp
    \* ffmpeg_helper: the module's settings
    DEBUG, VIDEO_ENCODING,
    setter_calls,           \* the calls of set_debug and set_video_encoding made
    \* process_video.delete_tmp_file and text_to_speech._delete_tmp_file
    file_system,            \* what each path is: "absent", "file" or "directory"
    delete_calls,           \* the calls made: function, path, outcome
    \* describe_scene.merge_scene_descriptions
    scene_pc,               \* "idle", "merge", "generate" or "returned"
    descriptions_input,
    attempt,                \* retries: the argument of the call in progress
    engine_requests,        \* the requests made to the engine
    merged_description      \* the value returned

audio_vars == <<ab_pc, words, min_pause, total_duration, blocks, block_count,
                last_end, text_buffer, text_buffer_start, index>>

merge_vars == <<merger, intervals, min_duration, merge_calls, merge_out, merge_prev>>

run_vars == <<entry, pc, scenes, scene_pos, clips, previous_descriptions, FILES,
              image_description, skipping, describe_calls, similarity,
              similarity_requests, tts_requests, cut_requests, clips_file,
              line_count, previous_time, video_duration, SAVE_FILES, disk,
              failed_attempts>>

clip_vars == <<gvs_pc, video_length, seconds_per_check, threshold, frame_index,
               prev_emb, current_scene_start, next_scene_number, visual_scenes,
               frame_FILES, tmp_frames>>

simple_vars == <<simple_pc, simple_duration, sample_interval, cut_threshold,
                 min_scene_length, frames_per_scene, method, current_time,
                 prev_timestamp, similarities, detected_cuts, optimal_scenes,
                 simple_FILES, simple_tmp>>

helper_vars == <<DEBUG, VIDEO_ENCODING, setter_calls>>

delete_vars == <<file_system, delete_calls>>

scene_vars == <<scene_pc, descriptions_input, attempt, engine_requests,
                merged_description>>

\* the modules that are called on their own
lib_vars == <<simple_vars, helper_vars, delete_vars, scene_vars>>

vars == <<audio_vars, merge_vars, run_vars, clip_vars, lib_vars>>

\* ------------------------------------------------------------------------
\* audio_block_detect.get_audio_blocks
\* ------------------------------------------------------------------------
\* times of the words: tenths of a second
Times == {t * 100 : t \in 0..MaxTick}
MinPauses == {200, 600}
TotalDurations == {300, 600, 2000}

\* Whisper word texts: word number i reads "a", "b", "c", ... ; Whisper puts a
\* space in front of a word.
Letters == <<"a", "b", "c", "d", "e", "f">>
WordTexts(i) == {<<Letters[i]>>, <<" ", Letters[i]>>}

\* Whisper's confidence in a word (its "probability"), in hundredths
Confidences == {30, 95}

AudioIdle ==
    /\ ab_pc = "idle"
    /\ words = <<>>
    /\ min_pause = 0
    /\ total_duration = 0
    /\ blocks = <<>>
    /\ block_count = 0
    /\ last_end = 0
    /\ text_buffer = <<>>
    /\ text_buffer_start = None
    /\ index = 0

InitAudio ==
    /\ ab_pc = "transcribe"
    /\ words = <<>>
    /\ min_pause \in MinPauses
    /\ total_duration \in TotalDurations
    /\ blocks = <<>>
    /\ block_count = 0
    /\ last_end = 0
    /\ text_buffer = <<>>
    /\ text_buffer_start = None
    /\ index = 0

\* lines 14-26: the transcription yields the next word, in time order
Transcribe ==
    /\ ab_pc = "transcribe"
    /\ Len(words) < MaxWords
    /\ \E s \in Times, e \in Times, w \in WordTexts(Len(words) + 1),
          p \in Confidences :
          /\ s <= e
          /\ words /= <<>> => Last(words).end <= s
          /\ words' = Append(words, [word |-> w, start |-> s, end |-> e,
                                      probability |-> p])
    /\ UNCHANGED <<ab_pc, min_pause, total_duration, blocks, block_count,
                   last_end, text_buffer, text_buffer_start, index,
                   merge_vars, run_vars, clip_vars, lib_vars>>

\* lines 28-36: the early return on no words, and the initial locals
GetAudioBlocksEnter ==
    /\ ab_pc = "transcribe"
    /\ IF words = <<>>
          THEN /\ ab_pc' = "done"
               /\ UNCHANGED <<blocks, block_count, last_end, text_buffer,
                              text_buffer_start, index>>
          ELSE /\ ab_pc' = "loop"
               /\ blocks' = <<>>
               /\ block_count' = 0
               /\ last_end' = 0
               /\ text_buffer' = <<>>
               /\ text_buffer_start' = None
               /\ index' = 0
    /\ UNCHANGED <<words, min_pause, total_duration,
                   merge_vars, run_vars, clip_vars, lib_vars>>

block(n, text, start_timecode, end_timecode) ==
    [scene_number |-> n, text |-> text,
     start_timecode |-> start_timecode, end_timecode |-> end_timecode]

\* lines 39-85: one iteration of the loop over the words (index is the
\* 0-based Python index of the word handled)
GetAudioBlocksWord ==
    /\ ab_pc = "loop"
    /\ LET single_word == words[index + 1]
           start == single_word.start
           gap == start - last_end
           is_last == (index = Len(words) - 1)
       IN
        /\ last_end' = single_word.end
        /\ IF gap > min_pause
              THEN \* lines 45-62
                   /\ blocks' = Append(blocks,
                         block(block_count, strip(text_buffer),
                               seconds_to_timecode(IF text_buffer_start = None
                                                      THEN 0
                                                      ELSE text_buffer_start),
                               seconds_to_timecode(single_word.end)))
                   /\ text_buffer_start' = None
                   /\ text_buffer' = single_word.word
                   /\ block_count' = block_count + 1
                   /\ index' = index + 1
                   /\ ab_pc' = IF is_last THEN "fill" ELSE "loop"
              ELSE IF is_last
              THEN \* lines 65-76
                   IF seconds_to_timecode_raises(text_buffer_start)
                      THEN /\ ab_pc' = "TypeError"
                           /\ text_buffer' = text_buffer \o single_word.word
                           /\ UNCHANGED <<blocks, block_count,
                                          text_buffer_start, index>>
                      ELSE /\ blocks' = Append(blocks,
                                 block(block_count,
                                       text_buffer \o single_word.word,
                                       seconds_to_timecode(text_buffer_start),
                                       seconds_to_timecode(single_word.end)))
                           /\ text_buffer' = single_word.word
                           /\ block_count' = block_count + 1
                           /\ index' = index + 1
                           /\ ab_pc' = "fill"
                           /\ UNCHANGED text_buffer_start
              ELSE \* lines 79-85
                   /\ text_buffer_start' = IF text_buffer_start = None
                                              THEN start
                                              ELSE text_buffer_start
                   /\ text_buffer' = text_buffer \o single_word.word
                   /\ index' = index + 1
                   /\ ab_pc' = "loop"
                   /\ UNCHANGED <<blocks, block_count>>
    /\ UNCHANGED <<words, min_pause, total_duration,
                   merge_vars, run_vars, clip_vars, lib_vars>>

\* lines 87-96: the remaining time, and the return
GetAudioBlocksFill ==
    /\ ab_pc = "fill"
    /\ blocks' = IF last_end < total_duration
                    THEN Append(blocks,
                            block(block_count, <<>>,
                                  seconds_to_timecode(last_end),
                                  seconds_to_timecode(total_duration)))
                    ELSE blocks
    /\ ab_pc' = "done"
    /\ UNCHANGED <<words, min_pause, total_duration, block_count, last_end,
                   text_buffer, text_buffer_start, index,
                   merge_vars, run_vars, clip_vars, lib_vars>>

\* ------------------------------------------------------------------------
\* visual_scene_detect._merge_short_scenes
\* ------------------------------------------------------------------------
scene_duration(scene) ==
    _timecode_to_seconds(scene.end_timecode) - _timecode_to_seconds(scene.start_timecode)

\* line 43: the current scene is too short, merge forward
merge_forward_inverted(duration, min_dur) == duration > min_dur

merge_forward(duration, min_dur) == duration < min_dur

\* line 56: the last scene is too short and a scene precedes it, merge backward
merge_backward_always(duration, min_dur, merged) == merged /= <<>>

merge_backward_never(duration, min_dur, merged) == FALSE

merge_backward(duration, min_dur, merged) == duration < min_dur /\ merged /= <<>>

\* lines 37-49: <<merged, current_scene>> after the loop over scenes[1:]
RECURSIVE _merge_short_scenes_loop(_, _, _, _)
_merge_short_scenes_loop(rest, current_scene, merged, min_dur) ==
    IF rest = <<>>
       THEN <<merged, current_scene>>
       ELSE LET next_scene == Head(rest)
            IN  IF merge_forward(scene_duration(current_scene), min_dur)
                   THEN _merge_short_scenes_loop(Tail(rest),
                            [current_scene EXCEPT !.end_timecode = next_scene.end_timecode],
                            merged, min_dur)
                   ELSE _merge_short_scenes_loop(Tail(rest), next_scene,
                            Append(merged, current_scene), min_dur)

\* lines 29-66
_merge_short_scenes(scene_list, min_dur) ==
    IF scene_list = <<>>
       THEN <<>>
       ELSE LET after == _merge_short_scenes_loop(Tail(scene_list), Head(scene_list), <<>>, min_dur)
                merged == after[1]
                current_scene == after[2]
                final == IF merge_backward(scene_duration(current_scene), min_dur, merged)
                            THEN [merged EXCEPT ![Len(merged)].end_timecode =
                                                    current_scene.end_timecode]
                            ELSE Append(merged, current_scene)
            IN  [i \in 1..Len(final) |-> [final[i] EXCEPT !.scene_number = i - 1]]

\* ------------------------------------------------------------------------
\* describe_video.merge_short_segments
\* ------------------------------------------------------------------------
\* lines 117-129: <<merged, buffer>> after the loop over segments[1:]
RECURSIVE merge_short_segments_loop(_, _, _, _)
merge_short_segments_loop(rest, buffer, merged, min_length) ==
    IF rest = <<>>
       THEN <<merged, buffer>>
       ELSE LET seg == Head(rest)
                seg_length == buffer.end - buffer.start
            IN  IF seg_length < min_length
                   THEN merge_short_segments_loop(Tail(rest),
                            [start |-> buffer.start,
                             end |-> seg.end,
                             text |-> strip(buffer.text \o <<" ">> \o seg.text)],
                            merged, min_length)
                   ELSE merge_short_segments_loop(Tail(rest), seg,
                            Append(merged, buffer), min_length)

\* lines 104-132
merge_short_segments(segments, min_length) ==
    IF segments = <<>>
       THEN <<>>
       ELSE LET after == merge_short_segments_loop(Tail(segments), Head(segments),
                                                   <<>>, min_length)
            IN  Append(after[1], after[2])

\* ------------------------------------------------------------------------
\* Calls of the mergers
\* ------------------------------------------------------------------------
Seconds == {t * 1000 : t \in 0..MaxSecond} \cup {5000, 6000, 20000, 61000}
MinDurations == {1000, 2000, 5000}
SegmentTexts(i) == {<<>>, <<" ", Letters[i]>>}

MergeIdle ==
    /\ merger = "idle"
    /\ intervals = <<>>
    /\ min_duration = 0
    /\ merge_calls = 0
    /\ merge_out = <<>>
    /\ merge_prev = <<>>

InitMerge ==
    /\ merger \in {"_merge_short_scenes", "merge_short_segments"}
    /\ intervals = <<>>
    /\ min_duration \in MinDurations
    /\ merge_calls = 0
    /\ merge_out = <<>>
    /\ merge_prev = <<>>

\* visual_scene_detect.get_visual_scenes lines 10-17: the detector yields the
\* next scene, numbered by enumerate(), with its two timecodes
DetectScene ==
    /\ merger = "_merge_short_scenes"
    /\ merge_calls = 0
    /\ Len(intervals) < MaxIntervals
    /\ \E s \in Seconds, e \in Seconds :
          /\ s <= e
          /\ intervals /= <<>> =>
                _timecode_to_seconds(Last(intervals).end_timecode) <= s
          /\ intervals' = Append(intervals,
                                 [scene_number |-> Len(intervals),
                                  start_timecode |-> format_seconds(s),
                                  end_timecode |-> format_seconds(e)])
    /\ UNCHANGED <<merger, min_duration, merge_calls, merge_out, merge_prev,
                   audio_vars, run_vars, clip_vars, lib_vars>>

\* describe_video.detect_break_points lines 63-65: the next segment of the
\* transcription (after fill_gaps, a segment of silence has the text '')
DetectSegment ==
    /\ merger = "merge_short_segments"
    /\ merge_calls = 0
    /\ Len(intervals) < MaxIntervals
    /\ \E s \in Seconds, e \in Seconds, t \in SegmentTexts(Len(intervals) + 1) :
          /\ s <= e
          /\ intervals /= <<>> => Last(intervals).end <= s
          /\ intervals' = Append(intervals, [start |-> s, end |-> e, text |-> t])
    /\ UNCHANGED <<merger, min_duration, merge_calls, merge_out, merge_prev,
                   audio_vars, run_vars, clip_vars, lib_vars>>

\* a call of _merge_short_scenes: on the detected scenes, then on its result
CallMergeShortScenes ==
    /\ merger = "_merge_short_scenes"
    /\ merge_calls < 2
    /\ merge_out' = _merge_short_scenes(IF merge_calls = 0 THEN intervals ELSE merge_out,
                                        min_duration)
    /\ merge_prev' = merge_out
    /\ merge_calls' = merge_calls + 1
    /\ UNCHANGED <<merger, intervals, min_duration,
                   audio_vars, run_vars, clip_vars, lib_vars>>

\* a call of merge_short_segments: on the segments, then on its result
CallMergeShortSegments ==
    /\ merger = "merge_short_segments"
    /\ merge_calls < 2
    /\ merge_out' = merge_short_segments(IF merge_calls = 0 THEN intervals ELSE merge_out,
                                         min_duration)
    /\ merge_prev' = merge_out
    /\ merge_calls' = merge_calls + 1
    /\ UNCHANGED <<merger, intervals, min_duration,
                   audio_vars, run_vars, clip_vars, lib_vars>>

\* ------------------------------------------------------------------------
\* describe_video: detection of the scenes
\* ------------------------------------------------------------------------
\* describe_video.fill_gaps lines 84-92, from prev_end on
RECURSIVE fill_gaps_loop(_, _)
fill_gaps_loop(segments, prev_end) ==
    IF segments = <<>>
       THEN <<>>
       ELSE LET seg == Head(segments)
                gap == IF seg.start > prev_end
                          THEN <<[start |-> prev_end, end |-> seg.start, text |-> <<>>]>>
                          ELSE <<>>
            IN  gap \o <<seg>> \o fill_gaps_loop(Tail(segments), seg.end)

\* describe_video.fill_gaps
fill_gaps(segments, total_dur) ==
    LET prev_end == IF segments = <<>> THEN 0 ELSE Last(segments).end
    IN  fill_gaps_loop(segments, 0)
          \o (IF prev_end < total_dur
                 THEN <<[start |-> prev_end, end |-> total_dur, text |-> <<>>]>>
                 ELSE <<>>)

\* describe_video.merge_short_segments, default of min_length
DEFAULT_MIN_LENGTH == 5000

\* describe_video.detect_break_points lines 65-77
detect_break_points(segments, total_dur) ==
    LET merged_segments == merge_short_segments(fill_gaps(segments, total_dur),
                                                DEFAULT_MIN_LENGTH)
    IN  [i \in 1..Len(merged_segments) |->
            [scene_number |-> i - 1,
             start_timecode |-> format_seconds(merged_segments[i].start),
             end_timecode |-> format_seconds(merged_segments[i].end)]]

\* ------------------------------------------------------------------------
\* describe_video: description, similarity
\* ------------------------------------------------------------------------
SIMILARLY_SCORE == 75
FRAMES_PER_CLIP == 5
MAX_RETRIES == 3

\* describe_video.describe_frames lines 134-165 (new_describe_video.describe_image
\* lines 45-75 retries the same way).  The engine fails the first `failures`
\* attempts of this request and then answers `response`.  Returns the text and
\* the number of engine calls made.
RECURSIVE describe_frames_one_more(_, _, _)
describe_frames_one_more(failures, response, retries) ==
    IF retries + 1 > failures
       THEN [text |-> strip(response), calls |-> retries + 1]
       ELSE IF retries <= MAX_RETRIES
               THEN describe_frames_one_more(failures, response, retries + 1)
               ELSE [text |-> <<>>, calls |-> retries + 1]

RECURSIVE describe_frames(_, _, _)
describe_frames(failures, response, retries) ==
    IF retries + 1 > failures
       THEN [text |-> strip(response), calls |-> retries + 1]
       ELSE IF retries < MAX_RETRIES
               THEN describe_frames(failures, response, retries + 1)
               ELSE [text |-> <<>>, calls |-> retries + 1]

\* describe_video.semantic_similarity lines 167-176: the cosine of the two
\* embeddings, in hundredths.  The cosine is symmetric in its two arguments and
\* is 1 for equal texts; the embedding engine decides the rest: `similarity`
\* holds its score for each unordered pair of distinct descriptions.  What the
\* engine answers for an empty text is left open: any value of SimValues.
SimValues == {50, 75, 90}
Descriptions == {<<"A">>, <<"B">>, <<"C">>}
DescriptionPairs == {p \in SUBSET Descriptions : Cardinality(p) = 2}

semantic_similarity(text1, text2) ==
    IF text1 = text2
       THEN {100}
       ELSE IF {text1, text2} \in DOMAIN similarity
               THEN {similarity[{text1, text2}]}
               ELSE SimValues

\* describe_video.should_skip_description line 182, on the score obtained
should_skip_strict(score) == score > SIMILARLY_SCORE

should_skip_description(score) == score >= SIMILARLY_SCORE

\* ------------------------------------------------------------------------
\* describe_video.process_video and process_scene
\* ------------------------------------------------------------------------
\* a path './tmp/...': its kind, the scene or line number and the frame number
Path(kind, n, i) == [kind |-> kind, n |-> n, i |-> i]

scene_video_path(n) == Path("scene.mp4", n, 0)
first_frame_path(n) == Path("scene_first_frame.png", n, 0)
frame_path(n, i) == Path("scene_frame.jpeg", n, i)
tts_path(n) == Path("scene_tts.wav", n, 0)
still_frame_path(n) == Path("scene_still_frame.mp4", n, 0)

\* the engine's answers: nothing, blanks, or one of the descriptions
Responses == {<<>>, <<" ">>, <<"A">>, <<"B">>, <<" ", "C">>}

PipelineSeconds == {0, 2000, 5000, 12000}
VideoDurations == {12000, 20000}

\* the transcriptions of the audio track: up to MaxSegments segments in time order
WhisperSegments ==
    UNION {
        {s \in [1..n -> {p \in PipelineSeconds \X PipelineSeconds : p[1] <= p[2]}] :
            \A i \in 1..(n - 1) : s[i][2] <= s[i + 1][1]}
        : n \in 0..MaxSegments}

segments_of(s) ==
    [i \in 1..Len(s) |-> [start |-> s[i][1], end |-> s[i][2], text |-> <<" ", Letters[i]>>]]

\* the elements of a list
Range(seq) == {seq[i] : i \in 1..Len(seq)}

\* describe_video.exit_handler lines 31-40: the files left in ./tmp
exit_handler(save_files, files, existing) ==
    IF save_files THEN existing ELSE existing \ Range(files)

\* no run of a pipeline; SAVE_FILES apart
NoRun ==
    /\ entry = "idle"
    /\ pc = "idle"
    /\ scenes = <<>>
    /\ scene_pos = 0
    /\ clips = <<>>
    /\ previous_descriptions = <<>>
    /\ FILES = <<>>
    /\ image_description = <<>>
    /\ skipping = FALSE
    /\ describe_calls = 0
    /\ similarity = <<>>
    /\ similarity_requests = <<>>
    /\ tts_requests = <<>>
    /\ cut_requests = <<>>
    /\ clips_file = <<>>
    /\ line_count = 0
    /\ previous_time = 0
    /\ video_duration = 0
    /\ disk = {}
    /\ failed_attempts = 0

RunIdle == NoRun /\ SAVE_FILES = FALSE

\* the module state before process_video is called; SAVE_FILES apart
RunStart ==
    /\ entry \in {"describe_video", "new_describe_video", "process_video"}
    /\ pc = "start"
    /\ scenes = <<>>
    /\ scene_pos = 0
    /\ clips = <<>>
    /\ previous_descriptions = <<>>
    /\ FILES = <<>>
    /\ image_description = <<>>
    /\ skipping = FALSE
    /\ describe_calls = 0
    /\ similarity = <<>>
    /\ similarity_requests = <<>>
    /\ tts_requests = <<>>
    /\ cut_requests = <<>>
    /\ clips_file = <<>>
    /\ line_count = 0
    /\ previous_time = 0
    /\ video_duration \in VideoDurations
    /\ disk = {}
    /\ failed_attempts = 0

\* a run without the option --save_files (SAVE_FILES = False, line 16)
InitRun == RunStart /\ SAVE_FILES = FALSE

\* a run with or without the option --save_files (__main__, lines 340-341)
InitRunAnyOption == RunStart /\ SAVE_FILES \in BOOLEAN

\* describe_video.process_video lines 198-214: the working files and the scenes
DescribeVideoStart ==
    /\ entry = "describe_video"
    /\ pc = "start"
    /\ \E s \in WhisperSegments :
          /\ Len(detect_break_points(segments_of(s), video_duration)) <= MaxScenes
          /\ scenes' = detect_break_points(segments_of(s), video_duration)
    /\ FILES' = FILES \o <<Path("normalized_video.mp4", 0, 0),
                            Path("video_audio_conversion.wav", 0, 0),
                            Path("clips_file.txt", 0, 0)>>
    /\ disk' = disk \cup {Path("normalized_video.mp4", 0, 0),
                           Path("video_audio_conversion.wav", 0, 0)}
    /\ similarity' \in [DescriptionPairs -> SimValues]
    /\ pc' = "scenes"
    /\ UNCHANGED <<entry, scene_pos, clips, previous_descriptions, image_description,
                   skipping, describe_calls, similarity_requests,
                   tts_requests, cut_requests, clips_file, line_count,
                   previous_time, video_duration, SAVE_FILES, failed_attempts,
                   audio_vars, merge_vars, clip_vars, lib_vars>>

\* line 215: the for loop moves to the next scene
next_scene_pos_rewind(pos) == IF pos = 1 THEN 0 ELSE pos + 1

next_scene_pos(pos) == pos + 1

\* process_scene lines 266-287: what the scene adds to the clip list
scene_clips_after(description, skip, still_frame, scene_video) ==
    IF description = <<>> \/ skip
       THEN <<scene_video>>
       ELSE <<scene_video, still_frame>>

scene_clips_narrate_empty(description, skip, still_frame, scene_video) ==
    IF skip
       THEN <<scene_video>>
       ELSE <<still_frame, scene_video>>

scene_clips_ignore_skip(description, skip, still_frame, scene_video) ==
    IF description = <<>>
       THEN <<scene_video>>
       ELSE <<still_frame, scene_video>>

scene_clips(description, skip, still_frame, scene_video) ==
    IF description = <<>> \/ skip
       THEN <<scene_video>>
       ELSE <<still_frame, scene_video>>

\* process_scene lines 266-272: the accepted descriptions after the scene
accepted_descriptions_any(previous, description, skip) ==
    IF skip
       THEN previous
       ELSE Append(previous, description)

accepted_descriptions_first(previous, description, skip) ==
    IF description = <<>> \/ skip
       THEN previous
       ELSE <<description>> \o previous

accepted_descriptions(previous, description, skip) ==
    IF description = <<>> \/ skip
       THEN previous
       ELSE Append(previous, description)

\* process_scene lines 226-287, called by the loop of line 215-216
ProcessScene ==
    /\ entry = "describe_video"
    /\ pc = "scenes"
    /\ scene_pos < Len(scenes)
    /\ LET scene == scenes[scene_pos + 1]
           n == scene.scene_number
           consulted == Len(previous_descriptions) > 0
       IN  \E failures \in 0..MaxFailures, response \in Responses :
           LET described == describe_frames(failures, response, 0)
               description == described.text
               previous == IF consulted THEN Last(previous_descriptions) ELSE <<>>
           IN  \E score \in semantic_similarity(description, previous) :
               LET skip == consulted /\ should_skip_description(score)
                   narrated == ~(description = <<>> \/ skip)
               IN  /\ image_description' = description
                   /\ describe_calls' = described.calls
                   /\ failed_attempts' = failures
                   /\ skipping' = skip
                   /\ similarity_requests' =
                        IF consulted
                           THEN Append(similarity_requests, <<description, previous>>)
                           ELSE similarity_requests
                   /\ cut_requests' = Append(cut_requests,
                                             [output |-> scene_video_path(n),
                                              start_time |-> scene.start_timecode,
                                              end_time |-> scene.end_timecode])
                   /\ FILES' = FILES
                                \o <<scene_video_path(n), first_frame_path(n)>>
                                \o [i \in 1..FRAMES_PER_CLIP |-> frame_path(n, i - 1)]
                                \o (IF narrated
                                       THEN <<tts_path(n), still_frame_path(n)>>
                                       ELSE <<>>)
                   /\ disk' = disk
                                \cup {scene_video_path(n), first_frame_path(n)}
                                \cup {frame_path(n, i) : i \in 0..(FRAMES_PER_CLIP - 1)}
                                \cup (IF narrated
                                         THEN {tts_path(n), still_frame_path(n)}
                                         ELSE {})
                   /\ tts_requests' =
                        IF narrated
                           THEN Append(tts_requests,
                                       [text |-> description, file |-> tts_path(n)])
                           ELSE tts_requests
                   /\ previous_descriptions' =
                        accepted_descriptions(previous_descriptions, description, skip)
                   /\ clips' = clips \o scene_clips(description, skip,
                                                     still_frame_path(n),
                                                     scene_video_path(n))
    /\ scene_pos' = next_scene_pos(scene_pos)
    /\ UNCHANGED <<entry, pc, scenes, similarity, clips_file, line_count, previous_time,
                   video_duration, SAVE_FILES,
                   audio_vars, merge_vars, clip_vars, lib_vars>>

\* ffmpeg_helper.export_clips_to_file lines 148-152: one line per clip, the
\* clip's path without './tmp/'
export_clips_to_file(clip_list) ==
    [i \in 1..Len(clip_list) |-> <<"file", clip_list[i]>>]

\* describe_video.process_video lines 218-224: export, concatenation and
\* cleanup
DescribeVideoFinish ==
    /\ entry = "describe_video"
    /\ pc = "scenes"
    /\ scene_pos = Len(scenes)
    /\ clips_file' = export_clips_to_file(clips)
    /\ disk' = exit_handler(SAVE_FILES, FILES,
                            disk \cup {Path("clips_file.txt", 0, 0)})
    /\ pc' = "done"
    /\ UNCHANGED <<entry, scenes, scene_pos, clips, previous_descriptions, FILES,
                   image_description, skipping, describe_calls, similarity,
                   similarity_requests, tts_requests, cut_requests, line_count,
                   previous_time, video_duration, SAVE_FILES, failed_attempts,
                   audio_vars, merge_vars, clip_vars, lib_vars>>

\* ------------------------------------------------------------------------
\* new_describe_video.process_video
\* ------------------------------------------------------------------------
tts_mp3_path(n) == Path("scene_tts.mp3", n, 0)
image_jpeg_path(n) == Path("scene_image.jpeg", n, 0)

RECURSIVE sorted(_)
sorted(S) ==
    IF S = {}
       THEN <<>>
       ELSE LET m == CHOOSE x \in S : \A y \in S : x <= y
            IN  <<m>> \o sorted(S \ {m})

\* new_describe_video.detect_scenes lines 30-43: the detector returns the
\* scenes between consecutive boundaries, numbered by enumerate()
detect_scenes(boundaries) ==
    LET b == sorted(boundaries)
    IN  [i \in 1..(Len(b) - 1) |->
            [scene_number |-> i - 1,
             start_timecode |-> format_seconds(b[i]),
             end_timecode |-> format_seconds(b[i + 1])]]

\* lines 92-101: the scenes of the video
NewDescribeVideoStart ==
    /\ entry = "new_describe_video"
    /\ pc = "start"
    /\ \E cuts \in SUBSET {t \in PipelineSeconds : 0 < t /\ t < video_duration} :
          /\ Cardinality(cuts) + 1 <= MaxScenes
          /\ \E found \in BOOLEAN :
                scenes' = IF found
                             THEN detect_scenes({0, video_duration} \cup cuts)
                             ELSE <<>>
    /\ disk' = disk \cup {Path("normalized_video.mp4", 0, 0)}
    /\ pc' = "scenes"
    /\ UNCHANGED <<entry, scene_pos, clips, previous_descriptions, FILES,
                   image_description, skipping, describe_calls, similarity,
                   similarity_requests, tts_requests, cut_requests, clips_file,
                   line_count, previous_time, video_duration, SAVE_FILES,
                   failed_attempts,
                   audio_vars, merge_vars, clip_vars, lib_vars>>

\* lines 123-142: what the scene adds to the clip list
new_scene_clips(description, still_frame, scene_video) ==
    IF description = <<>>
       THEN <<scene_video>>
       ELSE <<still_frame, scene_video>>

\* lines 102-142: the body of the loop over the scenes
NewProcessScene ==
    /\ entry = "new_describe_video"
    /\ pc = "scenes"
    /\ scene_pos < Len(scenes)
    /\ LET scene == scenes[scene_pos + 1]
           n == scene.scene_number
       IN  \E failures \in 0..MaxFailures, response \in Responses :
           LET described == describe_frames(failures, response, 0)
               description == described.text
           IN  /\ image_description' = description
               /\ describe_calls' = described.calls
               /\ failed_attempts' = failures
               /\ disk' = disk
                            \cup {scene_video_path(n), image_jpeg_path(n)}
                            \cup (IF description = <<>>
                                     THEN {}
                                     ELSE {tts_mp3_path(n), still_frame_path(n)})
               /\ cut_requests' = Append(cut_requests,
                                         [output |-> scene_video_path(n),
                                          start_time |-> scene.start_timecode,
                                          end_time |-> scene.end_timecode])
               /\ tts_requests' =
                    IF description = <<>>
                       THEN tts_requests
                       ELSE Append(tts_requests,
                                   [text |-> description, file |-> tts_mp3_path(n)])
               /\ clips' = clips \o new_scene_clips(description, still_frame_path(n),
                                                     scene_video_path(n))
    /\ scene_pos' = next_scene_pos(scene_pos)
    /\ UNCHANGED <<entry, pc, scenes, previous_descriptions, FILES, skipping,
                   similarity, similarity_requests, clips_file, line_count,
                   previous_time, video_duration, SAVE_FILES,
                   audio_vars, merge_vars, clip_vars, lib_vars>>

\* lines 144-148: export and concatenation; the function ends there
NewDescribeVideoFinish ==
    /\ entry = "new_describe_video"
    /\ pc = "scenes"
    /\ scene_pos = Len(scenes)
    /\ clips_file' = export_clips_to_file(clips)
    /\ disk' = disk \cup {Path("clips_file.txt", 0, 0)}
    /\ pc' = "done"
    /\ UNCHANGED <<entry, scenes, scene_pos, clips, previous_descriptions, FILES,
                   image_description, skipping, describe_calls, similarity,
                   similarity_requests, tts_requests, cut_requests, line_count,
                   previous_time, video_duration, SAVE_FILES, failed_attempts,
                   audio_vars, merge_vars, clip_vars, lib_vars>>

\* ------------------------------------------------------------------------
\* process_video.process_video: narration from a script
\* ------------------------------------------------------------------------
ScriptTimes == PipelineSeconds
ScriptTexts == {<<"A">>, <<"B">>}

narration_track_path(n) == Path("narration_track.wav", n, 0)
video_clip_path(n) == Path("video_clip.mp4", n, 0)
video_frame_path(n) == Path("video_frame.png", n, 0)
narration_clip_path(n) == Path("narration_clip.mp4", n, 0)
final_video_clip_path == Path("final_video_clip.mp4", 0, 0)
\* text_to_speech.generate_audio line 18: its own working file
uuid_tts_path(n) == Path("uuid_tts.wav", n, 0)

\* process_video.delete_tmp_file lines 26-42, for a file of ./tmp: the files
\* left in ./tmp
delete_tmp_file(save_files, file_path, existing) ==
    IF save_files THEN existing ELSE existing \ {file_path}

\* process_video._exit_handler lines 18-22
RECURSIVE _exit_handler(_, _, _)
_exit_handler(save_files, files, existing) ==
    IF files = <<>>
       THEN existing
       ELSE _exit_handler(save_files, Tail(files),
                          delete_tmp_file(save_files, Head(files), existing))

\* lines 70-78: the locals before the first line (the script file is open)
ProcessVideoStart ==
    /\ entry = "process_video"
    /\ pc = "start"
    /\ clips' = <<>>
    /\ previous_time' = 0
    /\ line_count' = 0
    /\ pc' = "lines"
    /\ UNCHANGED <<entry, scenes, scene_pos, previous_descriptions, FILES,
                   image_description, skipping, describe_calls, similarity,
                   similarity_requests, tts_requests, cut_requests, clips_file,
                   video_duration, SAVE_FILES, disk, failed_attempts,
                   audio_vars, merge_vars, clip_vars, lib_vars>>

\* lines 79-130: one non-empty line "timestamp text" of the script (an empty
\* line changes nothing, line 81-82)
ProcessLine ==
    /\ entry = "process_video"
    /\ pc = "lines"
    /\ line_count < MaxLines
    /\ \E timestamp \in ScriptTimes, text \in ScriptTexts :
          LET n == line_count + 1
              next_time == timestamp
              cut == next_time /= previous_time
          IN  /\ line_count' = n
              /\ tts_requests' = Append(tts_requests,
                                        [text |-> text, file |-> narration_track_path(n)])
              /\ cut_requests' =
                    IF cut
                       THEN Append(cut_requests,
                                   [output |-> video_clip_path(n),
                                    start_time |-> seconds_to_timecode(previous_time),
                                    end_time |-> seconds_to_timecode(next_time)])
                       ELSE cut_requests
              /\ FILES' = FILES
                            \o <<narration_track_path(n)>>
                            \o (IF cut THEN <<video_clip_path(n)>> ELSE <<>>)
                            \o <<video_frame_path(n), narration_clip_path(n)>>
              /\ clips' = clips
                            \o (IF cut THEN <<video_clip_path(n)>> ELSE <<>>)
                            \o <<narration_clip_path(n)>>
              /\ previous_time' = next_time
              /\ disk' =
                    delete_tmp_file(SAVE_FILES, video_frame_path(n),
                      delete_tmp_file(SAVE_FILES, narration_track_path(n),
                        disk \cup {narration_track_path(n), video_frame_path(n),
                                   narration_clip_path(n)}
                             \cup (IF cut THEN {video_clip_path(n)} ELSE {})))
    /\ UNCHANGED <<entry, pc, scenes, scene_pos, previous_descriptions,
                   image_description, skipping, describe_calls, similarity,
                   similarity_requests, clips_file, video_duration, SAVE_FILES,
                   failed_attempts,
                   audio_vars, merge_vars, clip_vars, lib_vars>>

\* lines 132-151: the rest of the footage, export and concatenation
ProcessVideoFinish ==
    /\ entry = "process_video"
    /\ pc = "lines"
    /\ LET cut == previous_time /= video_duration
           final_clips == clips \o (IF cut THEN <<final_video_clip_path>> ELSE <<>>)
       IN  /\ cut_requests' =
                IF cut
                   THEN Append(cut_requests,
                               [output |-> final_video_clip_path,
                                start_time |-> seconds_to_timecode(previous_time),
                                end_time |-> seconds_to_timecode(video_duration)])
                   ELSE cut_requests
           /\ clips' = final_clips
           /\ FILES' = FILES
                        \o (IF cut THEN <<final_video_clip_path>> ELSE <<>>)
                        \o <<Path("clips_file.txt", 0, 0)>>
           /\ clips_file' = export_clips_to_file(final_clips)
           /\ disk' = _exit_handler(SAVE_FILES, FILES',
                                    disk \cup {Path("clips_file.txt", 0, 0)}
                                         \cup (IF cut THEN {final_video_clip_path}
                                                       ELSE {}))
    /\ pc' = "done"
    /\ UNCHANGED <<entry, scenes, scene_pos, previous_descriptions,
                   image_description, skipping, describe_calls, similarity,
                   similarity_requests, tts_requests, line_count, previous_time,
                   video_duration, SAVE_FILES, failed_attempts,
                   audio_vars, merge_vars, clip_vars, lib_vars>>

\* ------------------------------------------------------------------------
\* KeyboardInterrupt during process_video
\* ------------------------------------------------------------------------
\* The user interrupts the run while the scenes or the lines are processed.
\* describe_video (__main__, lines 351-354) and process_video (__main__, lines
\* 199-207) catch KeyboardInterrupt and call their exit handler;
\* new_describe_video (__main__, line 220) does not catch it.  In
\* process_video.py the interrupt may come while text_to_speech.generate_audio
\* is writing the narration of the next line: the track is registered (line
\* 100) and generate_audio's own working file exists (text_to_speech.py lines
\* 18-22).
Interrupt ==
    /\ pc \in {"scenes", "lines"}
    /\ pc' = "interrupted"
    /\ \/ /\ entry = "describe_video"
          /\ disk' = exit_handler(SAVE_FILES, FILES, disk)
          /\ UNCHANGED FILES
       \/ /\ entry = "new_describe_video"
          /\ UNCHANGED <<disk, FILES>>
       \/ /\ entry = "process_video"
          /\ disk' = _exit_handler(SAVE_FILES, FILES, disk)
          /\ UNCHANGED FILES
       \/ /\ entry = "process_video"
          /\ line_count < MaxLines
          /\ FILES' = Append(FILES, narration_track_path(line_count + 1))
          /\ disk' = _exit_handler(SAVE_FILES, FILES',
                                   disk \cup {uuid_tts_path(line_count + 1)})
    /\ UNCHANGED <<entry, scenes, scene_pos, clips, previous_descriptions,
                   image_description, skipping, describe_calls, similarity,
                   similarity_requests, tts_requests, cut_requests, clips_file,
                   line_count, previous_time, video_duration, SAVE_FILES,
                   failed_attempts,
                   audio_vars, merge_vars, clip_vars, lib_vars>>

\* ------------------------------------------------------------------------
\* visual_scene_detect_clip.get_visual_scenes
\* ------------------------------------------------------------------------
\* lengths of the video: half seconds up to MaxDuration seconds
VideoLengths == {t * 500 : t \in 1..(2 * MaxDuration)}
CheckSteps == {1, 2}
Thresholds == {85, 90}
\* cosine similarities of two frames, in hundredths
FrameSimilarities == {80, 85, 90}

frame_png_path(n) == Path("frame.png", n, 0)

ClipIdle ==
    /\ gvs_pc = "idle"
    /\ video_length = 0
    /\ seconds_per_check = 0
    /\ threshold = 0
    /\ frame_index = 0
    /\ prev_emb = None
    /\ current_scene_start = 0
    /\ next_scene_number = 0
    /\ visual_scenes = <<>>
    /\ frame_FILES = <<>>
    /\ tmp_frames = {}

\* lines 65-76: the arguments, the duration and the locals before the loop
InitClip ==
    /\ gvs_pc = "loop"
    /\ video_length \in VideoLengths
    /\ seconds_per_check \in CheckSteps
    /\ threshold \in Thresholds
    /\ frame_index = 0
    /\ prev_emb = None
    /\ current_scene_start = 0
    /\ next_scene_number = 1
    /\ visual_scenes = <<>>
    /\ frame_FILES = <<>>
    /\ tmp_frames = {}

\* int(duration), in seconds
int_duration == video_length \div 1000

\* lines 91-95 and 103-107: the scene from start to end_time
visual_scene(number, start, end_time) ==
    [scene_number |-> number,
     start_timecode |-> seconds_to_timecode(start),
     end_timecode |-> seconds_to_timecode(end_time)]

\* line 106: where the last scene ends
last_scene_end_whole_seconds(length) == int_duration * 1000

last_scene_end(length) == length

\* lines 78-100: one iteration of the loop over range(0, int(duration),
\* seconds_per_check): the frame is saved and embedded, compared with the
\* previous one, and its image deleted
GetVisualScenesFrame ==
    /\ gvs_pc = "loop"
    /\ frame_index < int_duration
    /\ \E sim \in FrameSimilarities :
          LET boundary == prev_emb /= None /\ sim < threshold
          IN  /\ visual_scenes' =
                    IF boundary
                       THEN Append(visual_scenes,
                                   visual_scene(next_scene_number, current_scene_start,
                                                frame_index * 1000))
                       ELSE visual_scenes
              /\ next_scene_number' =
                    IF boundary THEN next_scene_number + 1 ELSE next_scene_number
              /\ current_scene_start' =
                    IF boundary THEN frame_index * 1000 ELSE current_scene_start
    /\ frame_FILES' = Append(frame_FILES, frame_png_path(frame_index))
    /\ tmp_frames' = (tmp_frames \cup {frame_png_path(frame_index)})
                        \ {frame_png_path(frame_index)}
    /\ prev_emb' = frame_index
    /\ frame_index' = frame_index + seconds_per_check
    /\ UNCHANGED <<gvs_pc, video_length, seconds_per_check, threshold,
                   audio_vars, merge_vars, run_vars, lib_vars>>

\* lines 102-111: the last scene, the cleanup and the return
GetVisualScenesReturn ==
    /\ gvs_pc = "loop"
    /\ frame_index >= int_duration
    /\ visual_scenes' = Append(visual_scenes,
                               visual_scene(next_scene_number, current_scene_start,
                                            last_scene_end(video_length)))
    /\ tmp_frames' = tmp_frames \ {frame_FILES[i] : i \in 1..Len(frame_FILES)}
    /\ gvs_pc' = "done"
    /\ UNCHANGED <<video_length, seconds_per_check, threshold, frame_index,
                   prev_emb, current_scene_start, next_scene_number, frame_FILES,
                   audio_vars, merge_vars, run_vars, lib_vars>>

\* ------------------------------------------------------------------------
\* ffmpeg_helper: set_video_encoding and set_debug
\* ------------------------------------------------------------------------
\* A Python value is modelled by its repr: True is "True", 'libx264' is
\* "libx264".
PyBool(b) == IF b THEN "True" ELSE "False"

Encodings == {"libx264", "libx265", "h264_nvenc"}

\* lines 5 and 18: the settings when the module is loaded
InitHelper ==
    /\ DEBUG = PyBool(FALSE)
    /\ VIDEO_ENCODING = "libx264"
    /\ setter_calls = <<>>

\* lines 20-25
SetVideoEncoding ==
    /\ Len(setter_calls) < MaxCalls
    /\ \E new_encoding \in Encodings :
          /\ VIDEO_ENCODING' = new_encoding
          /\ setter_calls' = Append(setter_calls,
                                    [function |-> "set_video_encoding",
                                     value |-> new_encoding])
    /\ UNCHANGED <<DEBUG, audio_vars, merge_vars, run_vars, clip_vars,
                   simple_vars, delete_vars, scene_vars>>

\* lines 27-32: the global named and assigned is VIDEO_ENCODING
SetDebug ==
    /\ Len(setter_calls) < MaxCalls
    /\ \E new_debug \in BOOLEAN :
          /\ VIDEO_ENCODING' = PyBool(new_debug)
          /\ setter_calls' = Append(setter_calls,
                                    [function |-> "set_debug",
                                     value |-> PyBool(new_debug)])
    /\ UNCHANGED <<DEBUG, audio_vars, merge_vars, run_vars, clip_vars,
                   simple_vars, delete_vars, scene_vars>>

\* ------------------------------------------------------------------------
\* describe_scene.merge_scene_descriptions
\* ------------------------------------------------------------------------
\* the lists of descriptions to merge: one to MaxSegments descriptions
DescriptionLists ==
    UNION {[1..n -> Descriptions] : n \in 1..MaxSegments}

\* what a request to the engine gives: an exception, or a response
Exception == <<"Exception">>
EngineOutcomes == {Exception} \cup Responses

SceneIdle ==
    /\ scene_pc = "idle"
    /\ descriptions_input = <<>>
    /\ attempt = 0
    /\ engine_requests = <<>>
    /\ merged_description = <<>>

\* line 54: the call merge_scene_descriptions(descriptions_input)
InitScene ==
    /\ scene_pc = "merge"
    /\ descriptions_input \in DescriptionLists
    /\ attempt = 0
    /\ engine_requests = <<>>
    /\ merged_description = <<>>

\* lines 57-91: the request to merge the descriptions; after an exception
\* (line 88) the function returns what generate_description returns (line 90)
MergeSceneDescriptions ==
    /\ scene_pc = "merge"
    /\ engine_requests' = Append(engine_requests,
                                 [request |-> "merge descriptions",
                                  input |-> descriptions_input])
    /\ \E outcome \in EngineOutcomes :
          IF outcome /= Exception
             THEN /\ merged_description' = strip(outcome)
                  /\ scene_pc' = "returned"
                  /\ UNCHANGED attempt
             ELSE IF attempt < MAX_RETRIES
             THEN /\ scene_pc' = "generate"
                  /\ attempt' = attempt + 1
                  /\ UNCHANGED merged_description
             ELSE /\ merged_description' = <<>>
                  /\ scene_pc' = "returned"
                  /\ UNCHANGED attempt
    /\ UNCHANGED <<descriptions_input, audio_vars, merge_vars, run_vars, clip_vars,
                   simple_vars, helper_vars, delete_vars>>

\* lines 6-41: generate_description(images, model, retries), called by line
\* 90 with the descriptions as images, and by itself at line 40
GenerateDescription ==
    /\ scene_pc = "generate"
    /\ engine_requests' = Append(engine_requests,
                                 [request |-> "describe images",
                                  input |-> descriptions_input])
    /\ \E outcome \in EngineOutcomes :
          IF outcome /= Exception
             THEN /\ merged_description' = strip(outcome)
                  /\ scene_pc' = "returned"
                  /\ UNCHANGED attempt
             ELSE IF attempt < MAX_RETRIES
             THEN /\ attempt' = attempt + 1
                  /\ UNCHANGED <<scene_pc, merged_description>>
             ELSE /\ merged_description' = <<>>
                  /\ scene_pc' = "returned"
                  /\ UNCHANGED attempt
    /\ UNCHANGED <<descriptions_input, audio_vars, merge_vars, run_vars, clip_vars,
                   simple_vars, helper_vars, delete_vars>>

\* ------------------------------------------------------------------------
\* process_video.delete_tmp_file and text_to_speech._delete_tmp_file
\* ------------------------------------------------------------------------
\* An absolute path is its directory and its name.  The paths given to the
\* two functions: one in ./tmp, one in the working directory, one in a
\* directory under ./tmp.
TmpFolder == "./tmp"

DeletePaths ==
    {[dirname |-> TmpFolder, basename |-> "narration_track.wav"],
     [dirname |-> ".", basename |-> "video.mp4"],
     [dirname |-> "./tmp/cache", basename |-> "frame.png"]}

FileKinds == {"absent", "file", "directory"}

DeleteIdle ==
    /\ file_system = [path \in DeletePaths |-> "absent"]
    /\ delete_calls = <<>>

\* what the paths are before the calls: anything
InitDelete ==
    /\ file_system \in [DeletePaths -> FileKinds]
    /\ delete_calls = <<>>

\* process_video.py lines 37-39: the file is directly in ./tmp
in_tmp_folder_or_below(file_path) ==
    file_path.dirname \in {TmpFolder, "./tmp/cache"}

in_tmp_folder(file_path) == file_path.dirname = TmpFolder

\* text_to_speech._delete_tmp_file lines 26-40: what the call does (it
\* returns, raises ValueError or removes the file) and the paths after it
_delete_tmp_file(file_path, fs) ==
    IF fs[file_path] = "absent"
       THEN [outcome |-> "returned", fs |-> fs]
       ELSE IF fs[file_path] /= "file"
       THEN [outcome |-> "ValueError", fs |-> fs]
       ELSE IF ~in_tmp_folder(file_path)
       THEN [outcome |-> "ValueError", fs |-> fs]
       ELSE [outcome |-> "removed", fs |-> [fs EXCEPT ![file_path] = "absent"]]

\* process_video.delete_tmp_file lines 26-42, for any path: the same after
\* the test of SAVE_FILES
delete_tmp_file_path(save_files, file_path, fs) ==
    IF save_files
       THEN [outcome |-> "returned", fs |-> fs]
       ELSE _delete_tmp_file(file_path, fs)

\* a call of process_video.delete_tmp_file
DeleteTmpFile ==
    /\ Len(delete_calls) < MaxCalls
    /\ \E file_path \in DeletePaths :
          LET result == delete_tmp_file_path(SAVE_FILES, file_path, file_system)
          IN  /\ file_system' = result.fs
              /\ delete_calls' = Append(delete_calls,
                                        [function |-> "delete_tmp_file",
                                         path |-> file_path,
                                         outcome |-> result.outcome])
    /\ UNCHANGED <<audio_vars, merge_vars, run_vars, clip_vars,
                   simple_vars, helper_vars, scene_vars>>

\* a call of text_to_speech._delete_tmp_file
TtsDeleteTmpFile ==
    /\ Len(delete_calls) < MaxCalls
    /\ \E file_path \in DeletePaths :
          LET result == _delete_tmp_file(file_path, file_system)
          IN  /\ file_system' = result.fs
              /\ delete_calls' = Append(delete_calls,
                                        [function |-> "_delete_tmp_file",
                                         path |-> file_path,
                                         outcome |-> result.outcome])
    /\ UNCHANGED <<audio_vars, merge_vars, run_vars, clip_vars,
                   simple_vars, helper_vars, scene_vars>>

\* ------------------------------------------------------------------------
\* visual_detection_simple: single-pass detection, optimal frames
\* ------------------------------------------------------------------------
\* lengths of the video: half seconds from 1 to MaxDuration seconds
SimpleDurations == {t * 500 : t \in 2..(2 * MaxDuration)}
SampleIntervals == {1000}
CutThresholds == {85}
MinSceneLengths == {1000, 2000}
FramesPerScene == {1, 3}
Methods == {"lowest_similarity", "highest_similarity"}

SimpleIdle ==
    /\ simple_pc = "idle"
    /\ simple_duration = 0
    /\ sample_interval = 0
    /\ cut_threshold = 0
    /\ min_scene_length = 0
    /\ frames_per_scene = 0
    /\ method = ""
    /\ current_time = 0
    /\ prev_timestamp = None
    /\ similarities = <<>>
    /\ detected_cuts = <<>>
    /\ optimal_scenes = <<>>
    /\ simple_FILES = <<>>
    /\ simple_tmp = {}

\* process_video lines 232-253 and analyze_video_single_pass lines 84-93: the
\* arguments, the duration and the locals before the loop
InitSimple ==
    /\ simple_pc = "sample"
    /\ simple_duration \in SimpleDurations
    /\ sample_interval \in SampleIntervals
    /\ cut_threshold \in CutThresholds
    /\ min_scene_length \in MinSceneLengths
    /\ frames_per_scene \in FramesPerScene
    /\ method \in Methods
    /\ current_time = 0
    /\ prev_timestamp = None
    /\ similarities = <<>>
    /\ detected_cuts = <<>>
    /\ optimal_scenes = <<>>
    /\ simple_FILES = <<>>
    /\ simple_tmp = {}

\* analyze_video_single_pass lines 94-110: one iteration of the loop; the
\* frame is saved, embedded and deleted (lines 61-68) and compared with the
\* frame before it
AnalyzeFrame ==
    /\ simple_pc = "sample"
    /\ current_time < simple_duration
    /\ simple_FILES' = Append(simple_FILES, frame_png_path(current_time))
    /\ simple_tmp' = (simple_tmp \cup {frame_png_path(current_time)})
                        \ {frame_png_path(current_time)}
    /\ IF prev_timestamp /= None
          THEN \E sim \in FrameSimilarities :
                  similarities' = Append(similarities,
                                         [timestamp |-> current_time,
                                          prev_timestamp |-> prev_timestamp,
                                          similarity |-> sim])
          ELSE UNCHANGED similarities
    /\ prev_timestamp' = current_time
    /\ current_time' = current_time + sample_interval
    /\ UNCHANGED <<simple_pc, simple_duration, sample_interval, cut_threshold,
                   min_scene_length, frames_per_scene, method, detected_cuts,
                   optimal_scenes,
                   audio_vars, merge_vars, run_vars, clip_vars,
                   helper_vars, delete_vars, scene_vars>>

\* lines 112-113: the cleanup and the return
AnalyzeReturn ==
    /\ simple_pc = "sample"
    /\ current_time >= simple_duration
    /\ simple_tmp' = simple_tmp \ Range(simple_FILES)
    /\ simple_pc' = "cuts"
    /\ UNCHANGED <<simple_duration, sample_interval, cut_threshold,
                   min_scene_length, frames_per_scene, method, current_time,
                   prev_timestamp, similarities, detected_cuts, optimal_scenes,
                   simple_FILES,
                   audio_vars, merge_vars, run_vars, clip_vars,
                   helper_vars, delete_vars, scene_vars>>

\* detect_cuts_from_similarities lines 133-136
RECURSIVE potential_cuts(_, _)
potential_cuts(items, cut_limit) ==
    IF items = <<>>
       THEN <<>>
       ELSE (IF Head(items).similarity < cut_limit
                THEN <<Head(items).timestamp>>
                ELSE <<>>)
            \o potential_cuts(Tail(items), cut_limit)

\* lines 145-149: the cuts kept among the rest of the potential cuts
RECURSIVE merge_close_cuts(_, _, _)
merge_close_cuts(rest, merged_cuts, min_length) ==
    IF rest = <<>>
       THEN merged_cuts
       ELSE IF Head(rest) - Last(merged_cuts) >= min_length
               THEN merge_close_cuts(Tail(rest), Append(merged_cuts, Head(rest)),
                                     min_length)
               ELSE merge_close_cuts(Tail(rest), merged_cuts, min_length)

\* lines 115-152
detect_cuts_from_similarities(items, cut_limit, min_length) ==
    LET potential == potential_cuts(items, cut_limit)
    IN  IF potential = <<>>
           THEN <<>>
           ELSE merge_close_cuts(Tail(potential), <<Head(potential)>>, min_length)

\* process_video line 260
DetectCuts ==
    /\ simple_pc = "cuts"
    /\ detected_cuts' = detect_cuts_from_similarities(similarities, cut_threshold,
                                                      min_scene_length)
    /\ simple_pc' = "frames"
    /\ UNCHANGED <<simple_duration, sample_interval, cut_threshold,
                   min_scene_length, frames_per_scene, method, current_time,
                   prev_timestamp, similarities, optimal_scenes, simple_FILES,
                   simple_tmp,
                   audio_vars, merge_vars, run_vars, clip_vars,
                   helper_vars, delete_vars, scene_vars>>

\* lines 188-201: the frames of the scene among the items, after those
\* already in scene_frames
RECURSIVE scene_frames_of(_, _, _, _)
scene_frames_of(items, scene_start, scene_end, scene_frames) ==
    IF items = <<>>
       THEN scene_frames
       ELSE LET item == Head(items)
                with_prev ==
                    IF scene_start <= item.prev_timestamp
                          /\ item.prev_timestamp < scene_end
                       THEN Append(scene_frames,
                                   [timestamp |-> item.prev_timestamp,
                                    similarity |-> item.similarity])
                       ELSE scene_frames
                with_current ==
                    IF /\ scene_start <= item.timestamp
                       /\ item.timestamp < scene_end
                       /\ ~\E k \in 1..Len(with_prev) :
                              with_prev[k].timestamp = item.timestamp
                       THEN Append(with_prev,
                                   [timestamp |-> item.timestamp,
                                    similarity |-> item.similarity])
                       ELSE with_prev
            IN  scene_frames_of(Tail(items), scene_start, scene_end, with_current)

\* list.sort(key=...): a stable sort of the frames by sign * frame[field],
\* ascending (sign is -1 for reverse=True, which keeps the order of equals)
RECURSIVE sort_frames(_, _, _)
sort_frames(frames, field, sign) ==
    IF frames = <<>>
       THEN <<>>
       ELSE LET front == sort_frames(SubSeq(frames, 1, Len(frames) - 1), field, sign)
                x == Last(frames)
                k == Cardinality({j \in 1..Len(front) :
                                     sign * front[j][field] <= sign * x[field]})
            IN  SubSeq(front, 1, k) \o <<x>> \o SubSeq(front, k + 1, Len(front))

\* min(a, b)
min(a, b) == IF a <= b THEN a ELSE b

\* lines 203-216: the frames selected among the frames of the scene
optimal_frames(scene_frames, per_scene, how) ==
    LET by_similarity == sort_frames(scene_frames, "similarity",
                                     IF how = "lowest_similarity" THEN 1 ELSE -1)
        num_frames == min(per_scene, Len(scene_frames))
    IN  sort_frames(SubSeq(by_similarity, 1, num_frames), "timestamp", 1)

\* lines 154-230
find_optimal_frames_per_scene(items, cut_list, length, per_scene, how) ==
    LET scene_boundaries == <<0>> \o cut_list \o <<length>>
    IN  [i \in 1..(Len(scene_boundaries) - 1) |->
            LET scene_start == scene_boundaries[i]
                scene_end == scene_boundaries[i + 1]
            IN  [scene_number |-> i,
                 start |-> scene_start,
                 end |-> scene_end,
                 duration |-> scene_end - scene_start,
                 optimal_frames |->
                    optimal_frames(scene_frames_of(items, scene_start, scene_end, <<>>),
                                   per_scene, how)]]

\* process_video lines 263-269
FindOptimalFrames ==
    /\ simple_pc = "frames"
    /\ optimal_scenes' = find_optimal_frames_per_scene(similarities, detected_cuts,
                                                       simple_duration,
                                                       frames_per_scene, method)
    /\ simple_pc' = "done"
    /\ UNCHANGED <<simple_duration, sample_interval, cut_threshold,
                   min_scene_length, frames_per_scene, method, current_time,
                   prev_timestamp, similarities, detected_cuts, simple_FILES,
                   simple_tmp,
                   audio_vars, merge_vars, run_vars, clip_vars,
                   helper_vars, delete_vars, scene_vars>>

\* ------------------------------------------------------------------------
\* Specifications
\* ------------------------------------------------------------------------
LibIdle == SimpleIdle /\ InitHelper /\ DeleteIdle /\ SceneIdle

NextSimple ==
    \/ AnalyzeFrame
    \/ AnalyzeReturn
    \/ DetectCuts
    \/ FindOptimalFrames

InitSpecSimple ==
    /\ InitSimple /\ InitHelper /\ DeleteIdle /\ SceneIdle
    /\ AudioIdle /\ MergeIdle /\ RunIdle /\ ClipIdle

SpecSimple == InitSpecSimple /\ [][NextSimple]_vars

NextHelper ==
    \/ SetVideoEncoding
    \/ SetDebug

InitSpecHelper ==
    /\ InitHelper /\ SimpleIdle /\ DeleteIdle /\ SceneIdle
    /\ AudioIdle /\ MergeIdle /\ RunIdle /\ ClipIdle

SpecHelper == InitSpecHelper /\ [][NextHelper]_vars

NextDelete ==
    \/ DeleteTmpFile
    \/ TtsDeleteTmpFile

InitSpecDelete ==
    /\ InitDelete /\ SimpleIdle /\ InitHelper /\ SceneIdle
    /\ AudioIdle /\ MergeIdle /\ NoRun /\ SAVE_FILES \in BOOLEAN /\ ClipIdle

SpecDelete == InitSpecDelete /\ [][NextDelete]_vars

NextScene ==
    \/ MergeSceneDescriptions
    \/ GenerateDescription

InitSpecScene ==
    /\ InitScene /\ SimpleIdle /\ InitHelper /\ DeleteIdle
    /\ AudioIdle /\ MergeIdle /\ RunIdle /\ ClipIdle

SpecScene == InitSpecScene /\ [][NextScene]_vars

NextClip ==
    \/ GetVisualScenesFrame
    \/ GetVisualScenesReturn

InitSpecClip == InitClip /\ AudioIdle /\ MergeIdle /\ RunIdle /\ LibIdle

SpecClip == InitSpecClip /\ [][NextClip]_vars

NextAudio ==
    \/ Transcribe
    \/ GetAudioBlocksEnter
    \/ GetAudioBlocksWord
    \/ GetAudioBlocksFill

InitSpecAudio == InitAudio /\ MergeIdle /\ RunIdle /\ ClipIdle /\ LibIdle

SpecAudio == InitSpecAudio /\ [][NextAudio]_vars

NextMerge ==
    \/ DetectScene
    \/ DetectSegment
    \/ CallMergeShortScenes
    \/ CallMergeShortSegments

InitSpecMerge == InitMerge /\ AudioIdle /\ RunIdle /\ ClipIdle /\ LibIdle

SpecMerge == InitSpecMerge /\ [][NextMerge]_vars

Next ==
    \/ DescribeVideoStart
    \/ ProcessScene
    \/ DescribeVideoFinish
    \/ NewDescribeVideoStart
    \/ NewProcessScene
    \/ NewDescribeVideoFinish
    \/ ProcessVideoStart
    \/ ProcessLine
    \/ ProcessVideoFinish

Init == InitRun /\ AudioIdle /\ MergeIdle /\ ClipIdle /\ LibIdle

\* the runs that are left to end, without the option --save_files
Spec == Init /\ [][Next]_vars

NextInterruptible ==
    \/ DescribeVideoStart
    \/ ProcessScene
    \/ DescribeVideoFinish
    \/ NewDescribeVideoStart
    \/ NewProcessScene
    \/ NewDescribeVideoFinish
    \/ ProcessVideoStart
    \/ ProcessLine
    \/ ProcessVideoFinish
    \/ Interrupt

InitInterruptible == InitRunAnyOption /\ AudioIdle /\ MergeIdle /\ ClipIdle /\ LibIdle

\* all the runs: with either option, ended or interrupted by the user
SpecInterruptible == InitInterruptible /\ [][NextInterruptible]_vars

\* ------------------------------------------------------------------------
\* Claims
\* ------------------------------------------------------------------------

\* C1: for every non-empty, time-ordered word sequence (within the media),
\* the blocks returned by get_audio_blocks partition [0, total_duration]: the
\* first block starts at 0, each block ends where the next one starts, and
\* the last block ends at total_duration.
C1_BlocksPartition ==
    (ab_pc = "done" /\ words /= <<>> /\ Last(words).end <= total_duration) =>
        /\ blocks /= <<>>
        /\ blocks[1].start_timecode = seconds_to_timecode(0)
        /\ \A i \in 1..(Len(blocks) - 1) :
              blocks[i].end_timecode = blocks[i + 1].start_timecode
        /\ Last(blocks).end_timecode = seconds_to_timecode(total_duration)

\* C2: merging is idempotent: a second call of _merge_short_scenes or of
\* merge_short_segments on the result of the first, with the same minimum
\* duration, returns that result unchanged (starts, ends, indices, texts).
C2_MergeIdempotent ==
    merge_calls = 2 => merge_out = merge_prev

\* a second call was made on a result in which the first call had merged
\* something and left two or more intervals
C2_Witness ==
    /\ merge_calls = 2
    /\ Len(merge_out) >= 2
    /\ Len(merge_out) < Len(intervals)

\* the scene handled by a step of the loop over the scenes
SceneStep == scene_pos' /= scene_pos

HandledScene == scenes[scene_pos + 1].scene_number

NoRepeat(seq) == \A i, j \in 1..Len(seq) : i /= j => seq[i] /= seq[j]

\* C3: across one run the position of the scene being processed never
\* decreases, and no scene is handed twice to the cut / describe / narrate
\* step: no scene is cut twice, narrated twice or put twice in the clip list.
C3_SceneOnce ==
    [][/\ scene_pos' >= scene_pos
       /\ NoRepeat([i \in 1..Len(cut_requests') |-> cut_requests'[i].output])
       /\ NoRepeat([i \in 1..Len(tts_requests') |-> tts_requests'[i].file])
       /\ NoRepeat(clips')]_vars

\* a run of describe_video over two or more scenes, one of them narrated, is over
C3_Witness ==
    /\ entry = "describe_video"
    /\ pc = "done"
    /\ scene_pos >= 2
    /\ tts_requests /= <<>>

\* C4: for every narration script, the footage clips cut by
\* process_video.process_video are strictly time-ordered and their source
\* ranges partition [0, total duration] without gap or overlap.
C4_FootagePartition ==
    (entry = "process_video" /\ pc = "done") =>
        /\ cut_requests /= <<>>
        /\ cut_requests[1].start_time = seconds_to_timecode(0)
        /\ \A i \in 1..Len(cut_requests) :
              _timecode_to_seconds(cut_requests[i].start_time)
                 < _timecode_to_seconds(cut_requests[i].end_time)
        /\ \A i \in 1..(Len(cut_requests) - 1) :
              cut_requests[i].end_time = cut_requests[i + 1].start_time
        /\ Last(cut_requests).end_time = seconds_to_timecode(video_duration)

\* C5: a narration clip generated for a scene stands in the clip list
\* immediately before that scene's original clip, never after it, and every
\* narration generated is in the clip list.
C5_NarrationBefore ==
    entry \in {"describe_video", "new_describe_video"} =>
        /\ \A i \in 1..Len(clips) :
              clips[i].kind = "scene_still_frame.mp4" =>
                 /\ i < Len(clips)
                 /\ clips[i + 1] = scene_video_path(clips[i].n)
                 /\ \A j \in 1..(i - 1) : clips[j] /= scene_video_path(clips[i].n)
        /\ \A r \in 1..Len(tts_requests) :
              \E i \in 1..Len(clips) : clips[i] = still_frame_path(tts_requests[r].file.n)

\* a run is over in which a scene after the first was narrated
C5_Witness ==
    /\ pc = "done"
    /\ \E i \in 2..Len(clips) : clips[i].kind = "scene_still_frame.mp4"

\* C6: a scene whose description is empty adds exactly one entry to the clip
\* list, its original clip; no narration is requested; the run stays in the
\* loop over the scenes, on the next scene.
C6_EmptyDescription ==
    [][(SceneStep /\ image_description' = <<>>) =>
          /\ clips' = Append(clips, scene_video_path(HandledScene))
          /\ tts_requests' = tts_requests
          /\ scene_pos' = scene_pos + 1
          /\ pc' = "scenes"]_vars

\* a run of describe_video reached the export with the clip list ending in the
\* original clip of a last scene that had no description and was not skipped
C6_Witness ==
    /\ entry = "describe_video"
    /\ pc = "done"
    /\ scene_pos >= 2
    /\ image_description = <<>>
    /\ ~skipping
    /\ previous_descriptions /= <<>>
    /\ Last(clips) = scene_video_path(Last(scenes).scene_number)
    /\ clips_file = export_clips_to_file(clips)

\* the similarity of two descriptions, as the engine computes it
Similarity(text1, text2) == IF text1 = text2 THEN 100 ELSE similarity[{text1, text2}]

SecondSkipped ==
    /\ skipping'
    /\ tts_requests' = tts_requests
    /\ clips' = Append(clips, scene_video_path(HandledScene))

\* C7 as stated: when two consecutive scenes have non-empty descriptions
\* whose similarity is at or above the threshold, the second is skipped: no
\* narration is requested for it and only its original clip is appended.
C7_SecondSkipped ==
    [][(/\ entry = "describe_video"
        /\ SceneStep
        /\ scene_pos >= 1
        /\ image_description /= <<>>
        /\ image_description' /= <<>>
        /\ Similarity(image_description, image_description') >= SIMILARLY_SCORE)
          => SecondSkipped]_vars

\* C7 as amended: when two consecutive scenes have non-empty descriptions
\* whose similarity is at or above the threshold and the first of them was
\* accepted (narrated), the second is skipped: no narration is requested for
\* it and only its original clip is appended, so the pair yields exactly one
\* narration clip, the first scene's.
C7_SecondSkippedAfterAccepted ==
    [][(/\ entry = "describe_video"
        /\ SceneStep
        /\ scene_pos >= 1
        /\ image_description /= <<>>
        /\ ~skipping
        /\ image_description' /= <<>>
        /\ Similarity(image_description, image_description') >= SIMILARLY_SCORE)
          => /\ SecondSkipped
             /\ Len(clips) >= 2
             /\ clips[Len(clips) - 1].kind = "scene_still_frame.mp4"
             /\ Last(clips).kind = "scene.mp4"]_vars

\* the second of two scenes with different descriptions of similarity 0.75
\* was skipped after the first was narrated
C7_Witness ==
    /\ entry = "describe_video"
    /\ scene_pos >= 2
    /\ skipping
    /\ image_description \in Descriptions
    /\ image_description /= Last(previous_descriptions)
    /\ Similarity(Last(previous_descriptions), image_description) = SIMILARLY_SCORE
    /\ Len(clips) >= 3
    /\ clips[Len(clips) - 2] = still_frame_path(scenes[scene_pos - 1].scene_number)
    /\ clips[Len(clips) - 1] = scene_video_path(scenes[scene_pos - 1].scene_number)
    /\ Last(clips) = scene_video_path(scenes[scene_pos].scene_number)

\* C8: a candidate description is skipped if and only if an accepted
\* description exists and similarity(previous, candidate) >= threshold; with
\* no accepted description it is never skipped and the engine is not asked;
\* otherwise the engine is asked exactly once, about the candidate and the
\* last accepted description; a candidate is narrated iff it is not skipped.
C8_SkipIffSimilar ==
    [][(entry = "describe_video" /\ SceneStep) =>
          LET had == previous_descriptions /= <<>>
              candidate == image_description'
          IN  /\ candidate /= <<>> =>
                   /\ skipping' = (had /\ Similarity(Last(previous_descriptions), candidate)
                                              >= SIMILARLY_SCORE)
                   /\ (tts_requests' /= tts_requests) = ~skipping'
              /\ ~had => (~skipping' /\ similarity_requests' = similarity_requests)
              /\ had => similarity_requests' =
                           Append(similarity_requests,
                                  <<candidate, Last(previous_descriptions)>>)]_vars

\* a candidate was skipped for a similarity of exactly 0.75 to the last
\* accepted description, after one question to the engine
C8_Witness ==
    /\ entry = "describe_video"
    /\ skipping
    /\ image_description \in Descriptions
    /\ similarity_requests = <<<<image_description, Last(previous_descriptions)>>>>
    /\ image_description /= Last(previous_descriptions)
    /\ similarity[{image_description, Last(previous_descriptions)}] = SIMILARLY_SCORE

\* C9: a scene whose description is empty leaves the accepted descriptions
\* as they were.
C9_EmptyKeepsDedupState ==
    [][(entry = "describe_video" /\ SceneStep /\ image_description' = <<>>) =>
          previous_descriptions' = previous_descriptions]_vars

\* a scene without description was processed, not skipped, after a
\* description had been accepted
C9_Witness ==
    /\ entry = "describe_video"
    /\ scene_pos >= 2
    /\ image_description = <<>>
    /\ ~skipping
    /\ previous_descriptions /= <<>>

\* C10: for a single token (of some length) that ends before total_duration,
\* get_audio_blocks returns exactly two blocks: the token's own span with its
\* text, then the trailing silence from the token's end to total_duration
\* with empty text.
C10_SingleToken ==
    (Len(words) = 1 /\ words[1].start < words[1].end /\ words[1].end < total_duration
        /\ ab_pc \in {"done", "TypeError"}) =>
        /\ ab_pc = "done"
        /\ Len(blocks) = 2
        /\ strip(blocks[1].text) = strip(words[1].word)
        /\ blocks[1].start_timecode = seconds_to_timecode(words[1].start)
        /\ blocks[1].end_timecode = seconds_to_timecode(words[1].end)
        /\ blocks[2].text = <<>>
        /\ blocks[2].start_timecode = seconds_to_timecode(words[1].end)
        /\ blocks[2].end_timecode = seconds_to_timecode(total_duration)

\* the character c occurs in the text
InText(c, text) == \E k \in 1..Len(text) : text[k] = c

\* the time between the end of word i - 1 and the start of word i
WordGap(i) == words[i].start - words[i - 1].end

\* C11: a gap between consecutive tokens exactly equal to min_pause does not
\* trigger a break: the two tokens end up in one merged speech block, which
\* holds the text of both and spans both.
C11_NoBreakAtMinPause ==
    ab_pc = "done" =>
        \A i \in 2..Len(words) :
            WordGap(i) = min_pause =>
                \E k \in 1..Len(blocks) :
                    /\ InText(Letters[i - 1], blocks[k].text)
                    /\ InText(Letters[i], blocks[k].text)
                    /\ _timecode_to_seconds(blocks[k].start_timecode) <= words[i - 1].start
                    /\ words[i].end <= _timecode_to_seconds(blocks[k].end_timecode)

\* C13: for every non-empty sequence of words (each of some length) whose
\* last word ends before total_duration, get_audio_blocks returns blocks the
\* last of which is the one trailing block: empty text, from the last word's
\* end to total_duration; when the last word ends at or after total_duration
\* the last block returned ends with the last word.
C13_TrailingBlock ==
    (/\ words /= <<>>
     /\ \A i \in 1..Len(words) : words[i].start < words[i].end
     /\ ab_pc \in {"done", "TypeError"}) =>
        IF Last(words).end < total_duration
           THEN /\ ab_pc = "done"
                /\ Len(blocks) >= 2
                /\ Last(blocks).text = <<>>
                /\ Last(blocks).start_timecode = seconds_to_timecode(Last(words).end)
                /\ Last(blocks).end_timecode = seconds_to_timecode(total_duration)
                /\ blocks[Len(blocks) - 1].end_timecode
                      = seconds_to_timecode(Last(words).end)
           ELSE ab_pc = "done" =>
                    Last(blocks).end_timecode = seconds_to_timecode(Last(words).end)

\* C14: for every minimum confidence, the words whose confidence is below it
\* are discarded before segmentation: no block holds their text, and when
\* every word is below it the result is the empty sequence.
C14_ConfidenceFilter ==
    ab_pc = "done" =>
        \A minConfidence \in Confidences :
            /\ \A i \in 1..Len(words) :
                  words[i].probability < minConfidence =>
                     \A k \in 1..Len(blocks) : ~InText(Letters[i], blocks[k].text)
            /\ (\A i \in 1..Len(words) : words[i].probability < minConfidence)
                  => blocks = <<>>

\* C20: when token i comes after a gap greater than min_pause, the block
\* closed at that break ends at the end of token i - 1 and holds no text of
\* token i or of a later token; the block that follows starts at token i's
\* start and holds token i's text.
C20_BreakBoundaries ==
    ab_pc = "done" =>
        \A i \in 2..Len(words) :
            WordGap(i) > min_pause =>
                \E k \in 1..(Len(blocks) - 1) :
                    /\ blocks[k].end_timecode = seconds_to_timecode(words[i - 1].end)
                    /\ \A j \in i..Len(words) : ~InText(Letters[j], blocks[k].text)
                    /\ blocks[k + 1].start_timecode = seconds_to_timecode(words[i].start)
                    /\ InText(Letters[i], blocks[k + 1].text)

\* the scenes of Scenario C, as the detector numbers them
ScenarioC ==
    <<[scene_number |-> 0, start_timecode |-> format_seconds(0),
       end_timecode |-> format_seconds(5000)],
      [scene_number |-> 1, start_timecode |-> format_seconds(5000),
       end_timecode |-> format_seconds(6000)],
      [scene_number |-> 2, start_timecode |-> format_seconds(6000),
       end_timecode |-> format_seconds(20000)]>>

MergedScenarioC ==
    /\ merger = "_merge_short_scenes"
    /\ merge_calls >= 1
    /\ intervals = ScenarioC
    /\ min_duration = 2000

\* the start and the end of each scene, in milliseconds
Boundaries(scene_list) ==
    [i \in 1..Len(scene_list) |->
        <<_timecode_to_seconds(scene_list[i].start_timecode),
          _timecode_to_seconds(scene_list[i].end_timecode)>>]

\* C12 as stated: merging [{0,5},{5,6},{6,20}] with minimum duration 2.0
\* yields [{0,6},{6,20}].
C12_ScenarioC ==
    MergedScenarioC => Boundaries(merge_out) = << <<0, 6000>>, <<6000, 20000>> >>

\* C12 as amended: merging [{0,5},{5,6},{6,20}] with minimum duration 2.0
\* yields [{0,5},{5,20}], numbered 0 and 1: the under-length interval {5,6}
\* is fused with the interval that follows it.
C12_ScenarioCForward ==
    MergedScenarioC =>
        /\ Boundaries(merge_out) = << <<0, 5000>>, <<5000, 20000>> >>
        /\ merge_out[1].scene_number = 0
        /\ merge_out[2].scene_number = 1

\* _merge_short_scenes has returned two scenes for Scenario C
C12_Witness ==
    /\ MergedScenarioC
    /\ merge_calls = 1
    /\ Len(merge_out) = 2

\* C15: _merge_short_scenes leaves no undersized interval: when it returns
\* two or more scenes, each of them, the last included, lasts at least
\* min_duration; the scene_number fields of the result are 0, 1, 2, ...
C15_NoUndersized ==
    (merger = "_merge_short_scenes" /\ merge_calls >= 1) =>
        /\ Len(merge_out) >= 2 =>
              \A i \in 1..Len(merge_out) : scene_duration(merge_out[i]) >= min_duration
        /\ \A i \in 1..Len(merge_out) : merge_out[i].scene_number = i - 1

\* the last detected scene was too short and came after a scene that was
\* not: it was merged backward into a result of two or more scenes
C15_Witness ==
    /\ merger = "_merge_short_scenes"
    /\ merge_calls = 1
    /\ Len(intervals) >= 3
    /\ scene_duration(Last(intervals)) < min_duration
    /\ scene_duration(intervals[Len(intervals) - 1]) >= min_duration
    /\ Len(merge_out) >= 2
    /\ Len(merge_out) < Len(intervals)
    /\ Last(merge_out).end_timecode = Last(intervals).end_timecode

\* C16: for every video length > 0, sampling step and similarity signal, the
\* scenes returned by get_visual_scenes (similarity-threshold mode) are
\* contiguous and gap-free over [0, duration]: the first starts at 0, each
\* ends where the next starts, each has start < end, the last ends at the
\* duration.
C16_ScenesContiguous ==
    (gvs_pc = "done" /\ video_length > 0) =>
        /\ visual_scenes /= <<>>
        /\ visual_scenes[1].start_timecode = seconds_to_timecode(0)
        /\ \A i \in 1..(Len(visual_scenes) - 1) :
              visual_scenes[i].end_timecode = visual_scenes[i + 1].start_timecode
        /\ \A i \in 1..Len(visual_scenes) :
              _timecode_to_seconds(visual_scenes[i].start_timecode)
                 < _timecode_to_seconds(visual_scenes[i].end_timecode)
        /\ Last(visual_scenes).end_timecode = seconds_to_timecode(video_length)

\* two or more scenes were returned for a video whose length is not a
\* whole number of seconds
C16_Witness ==
    /\ gvs_pc = "done"
    /\ video_length % 1000 /= 0
    /\ Len(visual_scenes) >= 2
    /\ seconds_per_check = 1

\* C17: when a run ends, normally or by user interruption, and file saving
\* is not requested, every temporary working file created during the run has
\* been deleted, whichever the entry point.
C17_TempFilesDeleted ==
    (pc \in {"done", "interrupted"} /\ ~SAVE_FILES) => disk = {}

\* C18: an interval that is not time-ordered (its start after its end) is
\* never silently processed by the clip-list builder: no clip is cut from it.
C18_UnorderedAborts ==
    entry = "process_video" =>
        \A i \in 1..Len(cut_requests) :
            _timecode_to_seconds(cut_requests[i].start_time)
               <= _timecode_to_seconds(cut_requests[i].end_time)

\* C19: a description request ends after at most 4 calls of the engine (the
\* first attempt and at most 3 retries); each call but the first follows a
\* failed attempt; when the last attempt fails too the result is the empty
\* string.
C19_DescriptionBounded ==
    entry \in {"describe_video", "new_describe_video"} =>
        /\ describe_calls <= 4
        /\ describe_calls <= failed_attempts + 1
        /\ (scene_pos > 0 /\ failed_attempts < 4) => describe_calls = failed_attempts + 1
        /\ failed_attempts >= 4 => (describe_calls = 4 /\ image_description = <<>>)

\* a description request failed four times and gave the empty string, after
\* an earlier description had been accepted
C19_Witness ==
    /\ entry = "describe_video"
    /\ scene_pos >= 2
    /\ failed_attempts = 4
    /\ describe_calls = 4
    /\ image_description = <<>>
    /\ previous_descriptions /= <<>>

\* C21: get_audio_blocks emits no block with empty text other than the one
\* trailing block of silence, from the last word's end to total_duration: a
\* first word that starts more than min_pause after 0, or words that each
\* follow a gap greater than min_pause, give no empty block.
C21_NoEmptyBlock ==
    ab_pc = "done" =>
        \A k \in 1..Len(blocks) :
            strip(blocks[k].text) = <<>> =>
                /\ k = Len(blocks)
                /\ blocks[k].start_timecode = seconds_to_timecode(Last(words).end)
                /\ blocks[k].end_timecode = seconds_to_timecode(total_duration)
                /\ Last(words).end < total_duration

\* C22: the similarity engine is asked only about non-empty candidate
\* descriptions: for a scene whose description is the empty string no
\* comparison is made, whether or not a description was accepted before.
C22_NoComparisonOfEmpty ==
    [][(entry = "describe_video" /\ SceneStep /\ image_description' = <<>>) =>
          similarity_requests' = similarity_requests]_vars

\* the narration clips of the clip list, in order
NarrationClips == SelectSeq(clips, LAMBDA c : c.kind = "scene_still_frame.mp4")

\* the text spoken in the last narration clip of the clip list
LastNarrationText ==
    LET last_clip == Last(NarrationClips)
        request == CHOOSE r \in Range(tts_requests) : r.file = tts_path(last_clip.n)
    IN  request.text

\* C23: at every point of a run the text a candidate description is compared
\* against is the most recently accepted (narrated) description: an accepted
\* description replaces it, a skipped or empty one does not, so after any
\* sequence of scenes the comparison target is the text of the last narration
\* clip inserted.
C23_ComparisonTarget ==
    [][(entry = "describe_video" /\ SceneStep) =>
          LET had == previous_descriptions /= <<>>
              narrated == tts_requests' /= tts_requests
          IN  /\ had = (NarrationClips /= <<>>)
              /\ had => /\ Last(previous_descriptions) = LastNarrationText
                        /\ Last(similarity_requests')[2] = LastNarrationText
              /\ narrated => Last(previous_descriptions') = image_description'
              /\ ~narrated => previous_descriptions' = previous_descriptions
              /\ (previous_descriptions' /= <<>>) =>
                    Last(previous_descriptions') = LastNarrationText']_vars

\* a third scene was compared with the second of two different narrated
\* descriptions and was not narrated itself
C23_Witness ==
    /\ entry = "describe_video"
    /\ scene_pos = 3
    /\ Len(tts_requests) = 2
    /\ tts_requests[1].text /= tts_requests[2].text
    /\ Len(similarity_requests) = 2
    /\ similarity_requests[2][2] = tts_requests[2].text
    /\ Len(NarrationClips) = 2

\* each segment starts where the one before it ends
Contiguous(segments) ==
    \A i \in 1..(Len(segments) - 1) : segments[i].end = segments[i + 1].start

\* C24: merge_short_segments merges every segment shorter than min_length
\* into a neighbour: for every contiguous input, when the result has two or
\* more segments each of them, the last included, lasts at least min_length.
C24_AllAtLeastMinLength ==
    (merger = "merge_short_segments" /\ merge_calls = 1 /\ Contiguous(intervals)) =>
        (Len(merge_out) >= 2 =>
            \A i \in 1..Len(merge_out) :
                merge_out[i].end - merge_out[i].start >= min_duration)

\* the texts of a list of words or of blocks, one after the other
RECURSIVE Concatenation(_, _)
Concatenation(list, field) ==
    IF list = <<>>
       THEN <<>>
       ELSE list[1][field] \o Concatenation(Tail(list), field)

\* a text without its white space
Unspaced(text) == SelectSeq(text, LAMBDA c : c /= " ")

\* C27: get_audio_blocks conserves the words: for every non-empty word
\* sequence the texts of the blocks, concatenated in order, are the texts of
\* the words concatenated in order (white space apart): no word is dropped or
\* duplicated, a last word that follows a gap greater than min_pause included.
C27_WordsConserved ==
    (ab_pc = "done" /\ words /= <<>>) =>
        Unspaced(Concatenation(blocks, "text")) = Unspaced(Concatenation(words, "word"))

\* C25: in the single-pass detector min_scene_length is a minimum scene
\* duration: for every similarity signal, every scene built from the cuts of
\* detect_cuts_from_similarities (boundaries 0, the cuts, duration) lasts at
\* least min_scene_length, the first scene [0, first cut] and the last scene
\* [last cut, duration] included (when there is a cut).
C25_MinSceneLength ==
    (simple_pc = "done" /\ detected_cuts /= <<>>) =>
        /\ Len(optimal_scenes) = Len(detected_cuts) + 1
        /\ \A i \in 1..Len(optimal_scenes) :
              optimal_scenes[i].duration >= min_scene_length

\* the calls of one of the two setters
CallsOf(function) == SelectSeq(setter_calls, LAMBDA call : call.function = function)

\* C26: set_debug(v) sets DEBUG to v and leaves VIDEO_ENCODING as it is:
\* after any sequence of calls of set_debug and set_video_encoding, DEBUG is
\* the last value given to set_debug and VIDEO_ENCODING the last value given
\* to set_video_encoding (the values of the module's load when there was no
\* call).
C26_SettersSetTheirOwn ==
    /\ DEBUG = IF CallsOf("set_debug") = <<>>
                  THEN PyBool(FALSE)
                  ELSE Last(CallsOf("set_debug")).value
    /\ VIDEO_ENCODING = IF CallsOf("set_video_encoding") = <<>>
                           THEN "libx264"
                           ELSE Last(CallsOf("set_video_encoding")).value

\* C28: for every scene returned by find_optimal_frames_per_scene the
\* optimal frames are at most frames_per_scene, each is within [scene start,
\* scene end), they are in ascending order of timestamp and their timestamps
\* are pairwise distinct.
C28_OptimalFrames ==
    simple_pc = "done" =>
        \A i \in 1..Len(optimal_scenes) :
            LET scene == optimal_scenes[i]
                optimal == scene.optimal_frames
            IN  /\ Len(optimal) <= frames_per_scene
                /\ \A k \in 1..Len(optimal) :
                      /\ scene.start <= optimal[k].timestamp
                      /\ optimal[k].timestamp < scene.end
                /\ \A k \in 1..(Len(optimal) - 1) :
                      optimal[k].timestamp <= optimal[k + 1].timestamp
                /\ \A j, k \in 1..Len(optimal) :
                      j /= k => optimal[j].timestamp /= optimal[k].timestamp

\* C30: every attempt made by merge_scene_descriptions, each retry after a
\* failure included, is a request to merge the same list of descriptions;
\* there are at most 4 attempts, and no request to describe images is made
\* in place of a retry.
C30_RetriesAreMerges ==
    /\ Len(engine_requests) <= MAX_RETRIES + 1
    /\ \A k \in 1..Len(engine_requests) :
          /\ engine_requests[k].request = "merge descriptions"
          /\ engine_requests[k].input = descriptions_input

\* the last call made is a call of delete_tmp_file or of _delete_tmp_file
DeleteStep == delete_calls' /= delete_calls

\* C29: delete_tmp_file removes nothing outside ./tmp: for a path that
\* exists and is not a regular file, or is not directly in ./tmp, it raises
\* ValueError and removes nothing; for a path that does not exist, or when
\* SAVE_FILES is set, it returns and removes nothing; otherwise it removes
\* the file and only it; so a second deletion of the same path is a no-op.
\* (_delete_tmp_file does the same, without the option SAVE_FILES.)
C29_DeleteOnlyInTmp ==
    [][DeleteStep =>
          LET call == Last(delete_calls')
              file_path == call.path
              saving == call.function = "delete_tmp_file" /\ SAVE_FILES
              exists == file_system[file_path] /= "absent"
              regular == file_system[file_path] = "file"
              in_tmp == file_path.dirname = TmpFolder
          IN  /\ \A other \in DeletePaths :
                    file_system'[other] /= file_system[other] =>
                        /\ other = file_path
                        /\ other.dirname = TmpFolder
                        /\ file_system[other] = "file"
                        /\ file_system'[other] = "absent"
              /\ (saving \/ ~exists) =>
                    (call.outcome = "returned" /\ file_system' = file_system)
              /\ (~saving /\ exists /\ (~regular \/ ~in_tmp)) =>
                    (call.outcome = "ValueError" /\ file_system' = file_system)
              /\ (~saving /\ exists /\ regular /\ in_tmp) =>
                    (call.outcome = "removed" /\ file_system'[file_path] = "absent")
              /\ (/\ delete_calls /= <<>>
                  /\ Last(delete_calls).path = file_path
                  /\ Last(delete_calls).outcome = "removed") =>
                    (call.outcome = "returned" /\ file_system' = file_system)]_vars

\* without SAVE_FILES, a file of ./tmp was deleted twice, which removed it
\* once, and the deletion of a file that exists under a directory of ./tmp
\* raised ValueError and left it there
C29_Witness ==
    /\ ~SAVE_FILES
    /\ Len(delete_calls) = 3
    /\ delete_calls[1].function = "delete_tmp_file"
    /\ delete_calls[1].outcome = "removed"
    /\ delete_calls[2].function = "delete_tmp_file"
    /\ delete_calls[2].path = delete_calls[1].path
    /\ delete_calls[2].outcome = "returned"
    /\ delete_calls[3].path.dirname = "./tmp/cache"
    /\ delete_calls[3].outcome = "ValueError"
    /\ file_system[delete_calls[3].path] = "file"

====
